---- MODULE Spec2Model ----
(***************************************************************************)
(* A model of registerGraphTools (src/src/graph-tools.ts): the registrar   *)
(* that turns every endpoint descriptor of the catalog into a tool whose   *)
(* handler binds the caller's arguments, synthesizes a request, awaits     *)
(* graphClient.graphRequest and normalizes the response, plus the three    *)
(* hand-written tools.                                                     *)
(*                                                                         *)
(* JavaScript strings are TLA+ strings; a JavaScript value is a record     *)
(* [t, v]: its type tag and, as a string, its text (for an object or an    *)
(* array the compact JSON text that identifies it).                        *)
(***************************************************************************)
EXTENDS Integers, Sequences, FiniteSets, TLC

(***************************************************************************)
(* Strings                                                                 *)
(***************************************************************************)

\* s.charAt(i - 1): the i-th character, "" outside the string.
CharAt(s, i) == IF i >= 1 /\ i <= Len(s) THEN SubSeq(s, i, i) ELSE ""

\* s.substring(i - 1): the text from the i-th character on.
From(s, i) == SubSeq(s, i, Len(s))

\* s.startsWith(p, i - 1)
StartsAt(s, p, i) == i + Len(p) - 1 <= Len(s) /\ SubSeq(s, i, i + Len(p) - 1) = p

\* s.endsWith(p)
EndsWith(s, p) == Len(p) <= Len(s) /\ SubSeq(s, Len(s) - Len(p) + 1, Len(s)) = p

\* s.indexOf(p, i - 1) + 1: the first place at or after i where p occurs, 0 if none.
IndexFrom(s, p, i) ==
    LET hits == { k \in i..(Len(s) - Len(p) + 1) : StartsAt(s, p, k) }
    IN  IF hits = {} THEN 0 ELSE CHOOSE k \in hits : \A m \in hits : k <= m

IndexOf(s, p) == IndexFrom(s, p, 1)

\* s.includes(p)
Includes(s, p) == IndexOf(s, p) > 0

\* s.replace(p, r) with a string pattern: only the first occurrence is replaced.
\* (r is always the output of encodeURIComponent, which holds no "$", so none
\* of the replacement patterns $&, $1, ... applies.)
ReplaceAt(s, p, r, i) ==
    IF i = 0 THEN s
    ELSE SubSeq(s, 1, i - 1) \o r \o From(s, i + Len(p))

ReplaceFirst(s, p, r) == ReplaceAt(s, p, r, IndexOf(s, p))

UpperLetters == "ABCDEFGHIJKLMNOPQRSTUVWXYZ"
LowerLetters == "abcdefghijklmnopqrstuvwxyz"
Digits == "0123456789"

LowerChar(c) ==
    LET i == IndexOf(UpperLetters, c) IN
    IF c # "" /\ i > 0 THEN CharAt(LowerLetters, i) ELSE c

\* The two halves of a string of two characters or more (the character maps
\* below work by halves, which keeps their recursion shallow).
LeftHalf(s) == SubSeq(s, 1, Len(s) \div 2)
RightHalf(s) == SubSeq(s, Len(s) \div 2 + 1, Len(s))

\* s.toLowerCase()
RECURSIVE ToLowerCase(_)
ToLowerCase(s) ==
    IF Len(s) <= 1 THEN LowerChar(s)
    ELSE ToLowerCase(LeftHalf(s)) \o ToLowerCase(RightHalf(s))

\* The characters encodeURIComponent leaves alone.
Unreserved == UpperLetters \o LowerLetters \o Digits \o "-_.!~*'()"

\* The model's stand-in for a lone surrogate (U+D800), the one character of its
\* alphabet on which encodeURIComponent throws URIError.
LoneSurrogate == "^"

\* The UTF-8 percent escapes of the other characters of the model's alphabet.
EscapedChars == << " ", "\"", "#", "$", "%", "&", "+", ",", "/", ":", "=", "?",
                   "@", "[", "\\", "]", "{", "}", "\n" >>
EscapeCodes == << "%20", "%22", "%23", "%24", "%25", "%26", "%2B", "%2C", "%2F",
                  "%3A", "%3D", "%3F", "%40", "%5B", "%5C", "%5D", "%7B", "%7D",
                  "%0A" >>

EscapeChar(c) ==
    IF Includes(Unreserved, c) THEN c
    ELSE LET k == CHOOSE j \in 1..Len(EscapedChars) : EscapedChars[j] = c
         IN  EscapeCodes[k]

\* Whether encodeURIComponent(s) throws.
Malformed(s) == Includes(s, LoneSurrogate)

\* encodeURIComponent(s), for a well-formed s.
RECURSIVE EncodeURIComponent(_)
EncodeURIComponent(s) ==
    IF Len(s) <= 1 THEN EscapeChar(s)
    ELSE EncodeURIComponent(LeftHalf(s)) \o EncodeURIComponent(RightHalf(s))

(***************************************************************************)
(* JavaScript values and JSON                                              *)
(***************************************************************************)

Undefined == [t |-> "undefined", v |-> "undefined"]
Null == [t |-> "null", v |-> "null"]
Str(s) == [t |-> "str", v |-> s]
Num(s) == [t |-> "num", v |-> s]
Bool(s) == [t |-> "bool", v |-> s]
Obj(s) == [t |-> "obj", v |-> s]

\* The truthiness of a value, as `if (value)` and `a && b` test it.
Truthy(val) ==
    CASE val.t \in {"undefined", "null"} -> FALSE
      [] val.t = "bool" -> val.v = "true"
      [] val.t = "num" -> val.v # "0"
      [] val.t = "str" -> val.v # ""
      [] OTHER -> TRUE

\* `${value}`, String(value): the text of a value (no array is stringified
\* this way in the model).
StringOf(val) ==
    CASE val.t \in {"str", "num", "bool", "null", "undefined"} -> val.v
      [] val.t = "obj" -> "[object Object]"

QuoteChar(c) ==
    CASE c = "\"" -> "\\\""
      [] c = "\\" -> "\\\\"
      [] c = "\n" -> "\\n"
      [] c = LoneSurrogate -> "\\ud800"
      [] OTHER -> c

RECURSIVE QuoteChars(_)
QuoteChars(s) ==
    IF Len(s) <= 1 THEN QuoteChar(s)
    ELSE QuoteChars(LeftHalf(s)) \o QuoteChars(RightHalf(s))

\* JSON.stringify(s) of a string s.
JSONQuote(s) == "\"" \o QuoteChars(s) \o "\""

\* JSON.stringify(value) of a value other than undefined.
JSONStringify(val) == IF val.t = "str" THEN JSONQuote(val.v) ELSE val.v

ParseFail == [ok |-> FALSE, pos |-> 0, t |-> "", v |-> ""]

IsWs(c) == c # "" /\ Includes(" \n\t\r", c)
IsDigit(c) == c # "" /\ Includes(Digits, c)

RECURSIVE SkipWs(_, _)
SkipWs(s, i) == IF IsWs(CharAt(s, i)) THEN SkipWs(s, i + 1) ELSE i

\* One character of a string literal: st holds whether the character before
\* was an unpaired backslash (esc), where the closing quote was found (end, 0
\* so far), whether the literal is malformed (bad) and the text read (acc),
\* with the escapes \" \\ \/ \n resolved (the escapes of the model's alphabet).
ScanChar(s, i, st) ==
    LET c == CharAt(s, i)
    IN  CASE st.end > 0 \/ st.bad -> st
          [] st.esc /\ Includes("\"\\/", c) -> [st EXCEPT !.esc = FALSE, !.acc = @ \o c]
          [] st.esc /\ c = "n" -> [st EXCEPT !.esc = FALSE, !.acc = @ \o "\n"]
          [] st.esc -> [st EXCEPT !.bad = TRUE]
          [] c = "\\" -> [st EXCEPT !.esc = TRUE]
          [] c = "\"" -> [st EXCEPT !.end = i]
          [] c = "\n" -> [st EXCEPT !.bad = TRUE]
          [] OTHER -> [st EXCEPT !.acc = @ \o c]

\* The characters lo..hi of s, scanned from state st (by halves).
RECURSIVE ScanRange(_, _, _, _)
ScanRange(s, lo, hi, st) ==
    IF lo > hi THEN st
    ELSE IF lo = hi THEN ScanChar(s, lo, st)
    ELSE LET mid == (lo + hi) \div 2
             left == ScanRange(s, lo, mid, st)
         IN  IF left.end > 0 \/ left.bad THEN left ELSE ScanRange(s, mid + 1, hi, left)

\* The string literal a scan has read, if it found the closing quote.
StringLiteral(st) ==
    IF st.bad \/ st.end = 0 THEN ParseFail
    ELSE [ok |-> TRUE, pos |-> st.end + 1, t |-> "str", v |-> st.acc]

\* The string literal whose opening quote is before j.
ScanString(s, j) ==
    StringLiteral(ScanRange(s, j, Len(s),
                            [esc |-> FALSE, end |-> 0, bad |-> FALSE, acc |-> ""]))

RECURSIVE ScanDigits(_, _)
ScanDigits(s, j) == IF IsDigit(CharAt(s, j)) THEN ScanDigits(s, j + 1) ELSE j

\* Where the digits 0|[1-9][0-9]* that start at j end (j if there is none).
DigitsEnd(s, j) == IF CharAt(s, j) = "0" THEN j + 1 ELSE ScanDigits(s, j)

\* The integer whose digits are the characters j..k-1; -0 is the number 0.
NumberLiteral(s, neg, j, k) ==
    IF k = j THEN ParseFail
    ELSE [ok |-> TRUE, pos |-> k, t |-> "num",
          v |-> IF neg /\ SubSeq(s, j, k - 1) # "0"
                THEN "-" \o SubSeq(s, j, k - 1) ELSE SubSeq(s, j, k - 1)]

\* An integer literal at i: -?(0|[1-9][0-9]*).
ScanNumber(s, i) ==
    IF CharAt(s, i) = "-" THEN NumberLiteral(s, TRUE, i + 1, DigitsEnd(s, i + 1))
    ELSE NumberLiteral(s, FALSE, i, DigitsEnd(s, i))

RECURSIVE ParseValue(_, _)
RECURSIVE ParseElements(_, _, _)
RECURSIVE ParseMembers(_, _, _)

\* The JSON value that starts at j.
ValueAt(s, j) ==
    CASE StartsAt(s, "null", j) -> [ok |-> TRUE, pos |-> j + 4, t |-> "null", v |-> "null"]
      [] StartsAt(s, "true", j) -> [ok |-> TRUE, pos |-> j + 4, t |-> "bool", v |-> "true"]
      [] StartsAt(s, "false", j) -> [ok |-> TRUE, pos |-> j + 5, t |-> "bool", v |-> "false"]
      [] CharAt(s, j) = "\"" -> ScanString(s, j + 1)
      [] CharAt(s, j) = "-" \/ IsDigit(CharAt(s, j)) -> ScanNumber(s, j)
      [] CharAt(s, j) = "[" ->
           IF CharAt(s, SkipWs(s, j + 1)) = "]"
           THEN [ok |-> TRUE, pos |-> SkipWs(s, j + 1) + 1, t |-> "arr", v |-> "[]"]
           ELSE ParseElements(s, j + 1, "[")
      [] CharAt(s, j) = "{" ->
           IF CharAt(s, SkipWs(s, j + 1)) = "}"
           THEN [ok |-> TRUE, pos |-> SkipWs(s, j + 1) + 1, t |-> "obj", v |-> "{}"]
           ELSE ParseMembers(s, j + 1, "{")
      [] OTHER -> ParseFail

\* The JSON value that starts at or after i (white space skipped).
ParseValue(s, i) == ValueAt(s, SkipWs(s, i))

\* What follows the element e of an array at j; text is the compact text read.
ElementsAfter(s, e, j, text) ==
    IF ~e.ok THEN ParseFail
    ELSE CASE CharAt(s, j) = "," -> ParseElements(s, j + 1, text \o ",")
           [] CharAt(s, j) = "]" ->
                [ok |-> TRUE, pos |-> j + 1, t |-> "arr", v |-> text \o "]"]
           [] OTHER -> ParseFail

\* An element e of an array and what follows it.
ElementsWith(s, e, acc) ==
    ElementsAfter(s, e, SkipWs(s, e.pos), acc \o JSONStringify(e))

\* The elements of an array from i on; acc is the compact text read so far.
ParseElements(s, i, acc) == ElementsWith(s, ParseValue(s, i), acc)

\* What follows the member k: e of an object at n.
MembersAfter(s, e, n, text) ==
    IF ~e.ok THEN ParseFail
    ELSE CASE CharAt(s, n) = "," -> ParseMembers(s, n + 1, text \o ",")
           [] CharAt(s, n) = "}" ->
                [ok |-> TRUE, pos |-> n + 1, t |-> "obj", v |-> text \o "}"]
           [] OTHER -> ParseFail

\* A member k: e of an object and what follows it.
MembersWith(s, k, e, acc) ==
    MembersAfter(s, e, SkipWs(s, e.pos),
                 acc \o JSONQuote(k.v) \o ":" \o JSONStringify(e))

\* The value of the member named k, after the colon expected at c.
MemberValue(s, k, c) ==
    IF k.ok /\ CharAt(s, c) = ":" THEN ParseValue(s, c + 1) ELSE ParseFail

\* The member named k and what follows it.
MemberNamed(s, k, acc) ==
    MembersWith(s, k, MemberValue(s, k, SkipWs(s, k.pos)), acc)

\* The name of a member at j.
MemberName(s, j) == IF CharAt(s, j) = "\"" THEN ScanString(s, j + 1) ELSE ParseFail

\* The members of an object from i on (member names are taken to be distinct
\* and not array indices, so the members keep their order).
ParseMembers(s, i, acc) == MemberNamed(s, MemberName(s, SkipWs(s, i)), acc)

\* The outcome of JSON.parse(s) where r is the value read at its start:
\* nothing but white space may follow the value.
Parsed(s, r) ==
    IF r.ok /\ SkipWs(s, r.pos) = Len(s) + 1
    THEN [ok |-> TRUE, val |-> [t |-> r.t, v |-> r.v]]
    ELSE [ok |-> FALSE, val |-> Undefined]

\* JSON.parse(s): ok is FALSE where it throws SyntaxError, and val is the value.
JSONParse(s) == Parsed(s, ParseValue(s, 1))

NewLine(depth) ==
    "\n" \o SubSeq("                    ", 1, 2 * depth)

IsOpener(c) == c = "{" \/ c = "["
IsCloser(c) == c = "}" \/ c = "]"

\* One character of a compact JSON text as JSON.stringify(v, null, 2) lays it
\* out: a line per member or element, two spaces per level, nothing between
\* the brackets of an empty object or array. st holds the level (depth),
\* whether the character is inside a string literal (inString) and whether the
\* character before was an unpaired backslash (esc).
IndentChar(s, i, st) ==
    LET c == CharAt(s, i)
    IN  CASE st.inString /\ st.esc -> [out |-> c, st |-> [st EXCEPT !.esc = FALSE]]
          [] st.inString /\ c = "\\" -> [out |-> c, st |-> [st EXCEPT !.esc = TRUE]]
          [] st.inString /\ c = "\"" -> [out |-> c, st |-> [st EXCEPT !.inString = FALSE]]
          [] st.inString -> [out |-> c, st |-> st]
          [] c = "\"" -> [out |-> c, st |-> [st EXCEPT !.inString = TRUE]]
          [] IsOpener(c) ->
               [out |-> IF IsCloser(CharAt(s, i + 1)) THEN c
                        ELSE c \o NewLine(st.depth + 1),
                st |-> [st EXCEPT !.depth = @ + 1]]
          [] IsCloser(c) ->
               [out |-> IF IsOpener(CharAt(s, i - 1)) THEN c
                        ELSE NewLine(st.depth - 1) \o c,
                st |-> [st EXCEPT !.depth = @ - 1]]
          [] c = "," -> [out |-> c \o NewLine(st.depth), st |-> st]
          [] c = ":" -> [out |-> ": ", st |-> st]
          [] OTHER -> [out |-> c, st |-> st]

\* The characters lo..hi of s laid out from state st (by halves).
RECURSIVE IndentRange(_, _, _, _)
IndentRange(s, lo, hi, st) ==
    IF lo > hi THEN [out |-> "", st |-> st]
    ELSE IF lo = hi THEN IndentChar(s, lo, st)
    ELSE LET mid == (lo + hi) \div 2
             left == IndentRange(s, lo, mid, st)
             right == IndentRange(s, mid + 1, hi, left.st)
         IN  [out |-> left.out \o right.out, st |-> right.st]

\* JSON.stringify(value, null, 2)
JSONStringifyIndented(val) ==
    LET text == JSONStringify(val)
    IN  IndentRange(text, 1, Len(text),
                    [depth |-> 0, inString |-> FALSE, esc |-> FALSE]).out

(***************************************************************************)
(* The endpoint catalog (api.endpoints, the input of registerGraphTools)   *)
(***************************************************************************)

Param(name, type) == [name |-> name, type |-> type]

Endpoint(alias, method, path, parameters, errors) ==
    [alias |-> alias, method |-> method, path |-> path,
     parameters |-> parameters, errors |-> errors]

\* A catalog with GET and non-GET descriptors, both placeholder styles, a
\* placeholder that occurs twice, a template with a query marker, Query,
\* Header and Body parameters, a workbook path and two media endpoints.
Endpoints ==
    << Endpoint("get-item", "get", "/items/{id}",
           << Param("id", "Path"), Param("filter", "Query"),
              Param("Top", "Query"), Param("tag", "Query") >>, << >>),
       Endpoint("list-user-messages", "get", "/users/:userId/messages",
           << Param("userId", "Path"), Param("search", "Header"),
              Param("ConsistencyLevel", "Header") >>, << >>),
       Endpoint("get-item-children", "get", "/items/{id}/children/{id}",
           << Param("id", "Path") >>, << >>),
       Endpoint("search-items", "get", "/items?view=all",
           << Param("search", "Query") >>, << >>),
       Endpoint("create-item", "post", "/items",
           << Param("payload", "Body"), Param("tag", "Query") >>, << >>),
       Endpoint("update-item", "patch", "/items/{id}",
           << Param("id", "Path") >>, << >>),
       Endpoint("delete-item", "delete", "/items/{id}",
           << Param("id", "Path") >>, << >>),
       Endpoint("get-excel-worksheets", "get", "/me/drive/root:{path}:/workbook/worksheets",
           << Param("path", "Path") >>, << >>),
       Endpoint("download-file", "get", "/drives/{id}/content",
           << Param("id", "Path"), Param("format", "Query") >>, << >>),
       Endpoint("get-photo", "get", "/me/photo/$value",
           << >>, << "Retrieved media content" >>) >>

Aliases == { Endpoints[i].alias : i \in 1..Len(Endpoints) }

ToolOf(alias) == Endpoints[CHOOSE i \in 1..Len(Endpoints) : Endpoints[i].alias = alias]

UpperChar(c) ==
    LET i == IndexOf(LowerLetters, c) IN
    IF c # "" /\ i > 0 THEN CharAt(UpperLetters, i) ELSE c

\* s.toUpperCase()
RECURSIVE ToUpperCase(_)
ToUpperCase(s) ==
    IF Len(s) <= 1 THEN UpperChar(s)
    ELSE ToUpperCase(LeftHalf(s)) \o ToUpperCase(RightHalf(s))

(***************************************************************************)
(* The handler of a catalog tool: binding                                  *)
(***************************************************************************)

\* A Record<string, string>: its entries in insertion order.
Entry(key, value) == [key |-> key, value |-> value]

HasKey(map, key) == \E i \in 1..Len(map) : map[i].key = key

\* map[key] = value: a new key is appended, a known key keeps its place.
Put(map, key, value) ==
    IF HasKey(map, key)
    THEN [i \in 1..Len(map) |-> IF map[i].key = key THEN Entry(key, value) ELSE map[i]]
    ELSE Append(map, Entry(key, value))

odataParams ==
    {"filter", "select", "expand", "orderby", "skip", "top", "count", "search", "format"}

\* A variant of fixedParamName that restores the sigil and keeps the case.
fixedParamNameKeepCase(paramName) ==
    IF ToLowerCase(paramName) \in odataParams THEN "$" \o paramName ELSE paramName

fixedParamName(paramName) ==
    IF ToLowerCase(paramName) \in odataParams
    THEN "$" \o ToLowerCase(paramName)
    ELSE paramName

\* parameterDefinitions.find((p) => p.name === paramName): its index, 0 if none.
FindParam(tool, paramName) ==
    IF \E i \in 1..Len(tool.parameters) : tool.parameters[i].name = paramName
    THEN CHOOSE i \in 1..Len(tool.parameters) :
             /\ tool.parameters[i].name = paramName
             /\ \A j \in 1..(i - 1) : tool.parameters[j].name # paramName
    ELSE 0

\* The body a Body argument sets: a string is parsed, and kept as it is
\* where JSON.parse throws.
ParsedOr(r, paramValue) == IF r.ok THEN r.val ELSE paramValue

ParseBody(paramValue) ==
    IF paramValue.t = "str" THEN ParsedOr(JSONParse(paramValue.v), paramValue)
    ELSE paramValue

\* A variant of FreshLocals in which `headers` is declared outside the handler:
\* an invocation starts from the headers of an invocation still in flight.
StaleLocals(tool, inflight) ==
    [path |-> tool.path, queryParams |-> << >>,
     headers |-> IF inflight = {} THEN << >>
                 ELSE (CHOOSE call \in inflight :
                          \A other \in inflight :
                              Len(other.options.headers) <= Len(call.options.headers)
                      ).options.headers,
     body |-> Null, threw |-> FALSE, message |-> ""]

\* The locals of one invocation as the handler declares them. `inflight` is
\* what the invocations awaiting graphRequest hold: nothing of it is read.
FreshLocals(tool, inflight) ==
    [path |-> tool.path, queryParams |-> << >>, headers |-> << >>, body |-> Null,
     threw |-> FALSE, message |-> ""]

Throw(locals, message) == [locals EXCEPT !.threw = TRUE, !.message = message]

\* path.replace(`{${name}}`, escaped).replace(`:${name}`, escaped)
ReplacePlaceholders(path, paramName, escaped) ==
    ReplaceFirst(ReplaceFirst(path, "{" \o paramName \o "}", escaped),
                 ":" \o paramName, escaped)

SubstitutePath(path, paramName, paramValue) ==
    ReplacePlaceholders(path, paramName, EncodeURIComponent(StringOf(paramValue)))

\* Lines 122-148: the switch on paramDef.type.
BindDefined(type, locals, paramName, paramValue) ==
    CASE type = "Path" ->
           IF Malformed(StringOf(paramValue)) THEN Throw(locals, "URI malformed")
           ELSE [locals EXCEPT !.path = SubstitutePath(@, paramName, paramValue)]
      [] type = "Query" ->
           [locals EXCEPT !.queryParams =
                Put(@, fixedParamName(paramName), StringOf(paramValue))]
      [] type = "Body" -> [locals EXCEPT !.body = ParseBody(paramValue)]
      [] type = "Header" ->
           [locals EXCEPT !.headers =
                Put(@, fixedParamName(paramName), StringOf(paramValue))]
      [] OTHER -> locals

\* A variant of BindUndefined that forwards an undeclared argument as a query
\* parameter.
BindUndefinedAsQuery(locals, paramName, paramValue) ==
    IF paramName = "body" THEN [locals EXCEPT !.body = ParseBody(paramValue)]
    ELSE [locals EXCEPT !.queryParams = Put(@, paramName, StringOf(paramValue))]

\* Lines 149-160: an argument no parameter definition names.
BindUndefined(locals, paramName, paramValue) ==
    IF paramName = "body" THEN [locals EXCEPT !.body = ParseBody(paramValue)]
    ELSE locals

\* One turn of the loop over Object.entries(params).
BindParam(tool, locals, paramName, paramValue) ==
    IF FindParam(tool, paramName) > 0
    THEN BindDefined(tool.parameters[FindParam(tool, paramName)].type,
                     locals, paramName, paramValue)
    ELSE BindUndefined(locals, paramName, paramValue)

RECURSIVE BindFrom(_, _, _, _)
BindFrom(tool, locals, params, i) ==
    IF i > Len(params) \/ locals.threw THEN locals
    ELSE BindFrom(tool, BindParam(tool, locals, params[i].name, params[i].value),
                  params, i + 1)

BindParams(tool, params, inflight) == BindFrom(tool, FreshLocals(tool, inflight), params, 1)

(***************************************************************************)
(* The handler of a catalog tool: the request                              *)
(***************************************************************************)

\* The second argument of graphRequest; given is FALSE where the call passes
\* none, and hasBody, hasExcelFile tell which optional members are set.
NoOptions ==
    [given |-> FALSE, method |-> "", headers |-> << >>, hasBody |-> FALSE, body |-> "",
     hasExcelFile |-> FALSE, excelFile |-> "", rawResponse |-> FALSE]

RECURSIVE JoinQuery(_, _)
JoinQuery(queryParams, i) ==
    IF i > Len(queryParams) THEN ""
    ELSE (IF i > 1 THEN "&" ELSE "")
         \o EncodeURIComponent(queryParams[i].key) \o "="
         \o EncodeURIComponent(queryParams[i].value)
         \o JoinQuery(queryParams, i + 1)

\* The path with the query string appended, if there is any query parameter.
WithQuery(path, queryParams) ==
    IF Len(queryParams) > 0
    THEN path \o (IF Includes(path, "?") THEN "&" ELSE "?") \o JoinQuery(queryParams, 1)
    ELSE path

\* Whether the body is put in the options.
AttachesBody(method, body) == method # "GET" /\ Truthy(body)

\* path.match(/\/me\/drive\/root:([^:]+):/): the first group of the leftmost
\* match from i on, found FALSE if there is none.
RECURSIVE ExcelFileFrom(_, _)

DriveRoot == "/me/drive/root:"

NoMatch == [found |-> FALSE, file |-> ""]

\* The match whose literal prefix is at j and whose group runs from start to
\* the colon at end (no match from j on where there is no prefix or no colon).
ExcelFileBetween(path, j, start, end) ==
    IF j = 0 \/ end = 0 THEN NoMatch
    ELSE IF end = start THEN ExcelFileFrom(path, j + 1)
    ELSE [found |-> TRUE, file |-> SubSeq(path, start, end - 1)]

ExcelFileAt(path, j) ==
    ExcelFileBetween(path, j, j + Len(DriveRoot), IndexFrom(path, ":", j + Len(DriveRoot)))

ExcelFileFrom(path, i) == ExcelFileAt(path, IndexFrom(path, DriveRoot, i))

\* Lines 180-190: the excelFile the options get, if any.
ExcelFile(tool, path) ==
    IF Includes(tool.alias, "excel") /\ Includes(path, "workbook")
    THEN ExcelFileFrom(path, 1)
    ELSE NoMatch

isProbablyMediaContent(tool, path) ==
    \/ \E i \in 1..Len(tool.errors) : tool.errors[i] = "Retrieved media content"
    \/ EndsWith(path, "/content")

\* The options of the request, from the bound locals and the final path.
OptionsWith(tool, locals, path, method, excel) ==
    [given |-> TRUE, method |-> method, headers |-> locals.headers,
     hasBody |-> AttachesBody(method, locals.body),
     body |-> IF ~AttachesBody(method, locals.body) THEN ""
              ELSE IF locals.body.t = "str" THEN locals.body.v
              ELSE JSONStringify(locals.body),
     hasExcelFile |-> excel.found, excelFile |-> excel.file,
     rawResponse |-> isProbablyMediaContent(tool, path)]

BuildOptions(tool, locals, path) ==
    OptionsWith(tool, locals, path, ToUpperCase(tool.method), ExcelFile(tool, path))

\* Lines 96-200: the request a catalog handler makes for params, or the error
\* thrown before it makes one.
\* Whether encodeURIComponent throws on a key or a value of the query string.
BadQuery(queryParams) ==
    \E i \in 1..Len(queryParams) :
        Malformed(queryParams[i].key) \/ Malformed(queryParams[i].value)

\* Lines 170-200: the request made with the final path.
RequestTo(tool, locals, path) ==
    [threw |-> FALSE, message |-> "", path |-> path,
     options |-> BuildOptions(tool, locals, path)]

\* Lines 163-200: the request made of the bound locals.
RequestOf(tool, locals) ==
    IF locals.threw
    THEN [threw |-> TRUE, message |-> locals.message, path |-> "", options |-> NoOptions]
    ELSE IF BadQuery(locals.queryParams)
    THEN [threw |-> TRUE, message |-> "URI malformed", path |-> "", options |-> NoOptions]
    ELSE RequestTo(tool, locals, WithQuery(locals.path, locals.queryParams))

CatalogRequest(tool, params, inflight) == RequestOf(tool, BindParams(tool, params, inflight))

(***************************************************************************)
(* Responses, thrown values and result envelopes                           *)
(***************************************************************************)

TextItem(text) == [type |-> "text", text |-> text]

\* What graphRequest resolves to: an McpResponse, or undefined (defined FALSE).
Response(content, meta, isError) ==
    [defined |-> TRUE, content |-> content, meta |-> meta, isError |-> isError]

UndefinedResponse ==
    [defined |-> FALSE, content |-> << >>, meta |-> "undefined", isError |-> "undefined"]

\* A thrown value: an Error with a message, or a thrown string.
ErrorOf(message) == [t |-> "error", v |-> message]

\* (error as Error).message
MessageOf(thrown) == IF thrown.t = "error" THEN Str(thrown.v) ELSE Undefined

\* What graphRequest did: resolved with a response or rejected with a value.
Resolved(response) == [rejected |-> FALSE, response |-> response, thrown |-> Undefined]
Rejected(thrown) == [rejected |-> TRUE, response |-> UndefinedResponse, thrown |-> thrown]

Envelope(content, meta, isError) ==
    [content |-> content, meta |-> meta, isError |-> isError]

\* What a handler hands to the host: an envelope it returns (the value
\* returned is undefined where defined is FALSE), or a value it throws.
Returned(envelope) == [threw |-> FALSE, defined |-> TRUE, envelope |-> envelope]
ReturnedUndefined ==
    [threw |-> FALSE, defined |-> FALSE, envelope |-> Envelope(<< >>, "undefined", "undefined")]
NoResult == ReturnedUndefined

TypeErrorContent == "Cannot read properties of undefined (reading 'content')"
TypeErrorText == "Cannot read properties of undefined (reading 'text')"
SyntaxErrorMessage == "Unexpected token in JSON"

\* What a handler throws to the host (reading .message of a thrown null or
\* undefined inside the catch throws TypeError).
ThrewToHost ==
    [threw |-> TRUE, defined |-> FALSE, envelope |-> Envelope(<< >>, "undefined", "undefined")]

\* A variant of CatalogCatch that reports the message alone, as the catch of a
\* hand-written handler does.
CatalogCatchUnnamed(tool, thrown) ==
    IF thrown.t \in {"null", "undefined"} THEN ThrewToHost
    ELSE Returned(Envelope(
        << TextItem(IF MessageOf(thrown).t = "undefined" THEN "{}"
                    ELSE "{\"error\":" \o JSONQuote(MessageOf(thrown).v) \o "}") >>,
        "undefined", "true"))

\* Lines 248-261: the catch of a catalog handler.
CatalogCatch(tool, thrown) ==
    IF thrown.t \in {"null", "undefined"} THEN ThrewToHost
    ELSE Returned(Envelope(
        << TextItem("{\"error\":"
               \o JSONQuote("Error in tool " \o tool.alias \o ": " \o StringOf(MessageOf(thrown)))
               \o "}") >>,
        "undefined", "true"))

\* response.content.map((item) => ({ type: 'text', text: item.text }))
MapContent(content) == [i \in 1..Len(content) |-> TextItem(content[i].text)]

\* Lines 203-247: the envelope made of the response (what is logged on the
\* way changes nothing).
NormalizeResponse(tool, response) ==
    IF ~response.defined THEN CatalogCatch(tool, ErrorOf(TypeErrorContent))
    ELSE Returned(Envelope(MapContent(response.content), response.meta, response.isError))

\* What a catalog handler returns once graphRequest has settled.
CatalogFinish(tool, reply) ==
    IF reply.rejected THEN CatalogCatch(tool, reply.thrown)
    ELSE NormalizeResponse(tool, reply.response)

(***************************************************************************)
(* The hand-written tools                                                  *)
(***************************************************************************)

Arg(name, value) == [name |-> name, value |-> value]

\* params[name] of a tool whose schema makes every argument a string.
ArgOf(params, name) ==
    params[CHOOSE i \in 1..Len(params) : params[i].name = name].value.v

DefaultContentType == "application/vnd.openxmlformats-officedocument.spreadsheetml.sheet"

FixedTools == << "debug-excel-access", "upload-file-to-onedrive", "create-empty-excel-file" >>

\* Lines 317-329, 364-376, 409-421: the catch of a hand-written handler;
\* JSON.stringify leaves out a member whose value is undefined.
FixedCatch(thrown) ==
    IF thrown.t \in {"null", "undefined"} THEN ThrewToHost
    ELSE LET message == MessageOf(thrown)
             object == IF message.t = "undefined" THEN "{}"
                       ELSE "{\"error\":" \o JSONQuote(message.v) \o "}"
         IN  Returned(Envelope(<< TextItem(JSONStringifyIndented(Obj(object))) >>,
                               "undefined", "true"))

\* debug-excel-access: its n-th request (lines 278-297).
DebugRequest(filePath, n) ==
    CASE n = 1 -> [path |-> "/me/drive/root:" \o filePath, options |-> NoOptions]
      [] n = 2 ->
           [path |-> "/me/drive/root:" \o filePath \o ":/workbook/createSession",
            options |-> [NoOptions EXCEPT !.given = TRUE, !.method = "POST", !.hasBody = TRUE,
                                          !.body = "{\"persistChanges\":false}"]]
      [] n = 3 ->
           [path |-> "/me/drive/root:" \o filePath \o ":/workbook/worksheets",
            options |-> NoOptions]
      [] n = 4 ->
           [path |-> "/me/drive/root:" \o filePath
                         \o ":/workbook/worksheets/Sheet1/range(address='A1:C5')",
            options |-> NoOptions]

DebugRequests == 4

\* The outcome r of JSON.parse as the try block sees it.
ParsedText(r) ==
    IF r.ok THEN [ok |-> TRUE, thrown |-> Undefined, val |-> r.val]
    ELSE [ok |-> FALSE, thrown |-> ErrorOf(SyntaxErrorMessage), val |-> Undefined]

\* JSON.parse(response.content[0].text): thrown is the error where it fails.
ParseFirstText(response) ==
    IF ~response.defined
    THEN [ok |-> FALSE, thrown |-> ErrorOf(TypeErrorContent), val |-> Undefined]
    ELSE IF Len(response.content) = 0
    THEN [ok |-> FALSE, thrown |-> ErrorOf(TypeErrorText), val |-> Undefined]
    ELSE ParsedText(JSONParse(response.content[1].text))

\* debug-excel-access: what it returns once its four requests have resolved
\* (lines 300-316).
ReportOf(parsed) ==
    LET failed == { i \in 1..DebugRequests : ~parsed[i].ok }
        first == CHOOSE i \in failed : \A j \in failed : i <= j
        object == "{\"fileInfo\":" \o JSONStringify(parsed[1].val)
                  \o ",\"sessionResult\":" \o JSONStringify(parsed[2].val)
                  \o ",\"worksheets\":" \o JSONStringify(parsed[3].val)
                  \o ",\"range\":" \o JSONStringify(parsed[4].val) \o "}"
    IN  IF failed # {} THEN FixedCatch(parsed[first].thrown)
        ELSE Returned(Envelope(<< TextItem(JSONStringifyIndented(Obj(object))) >>,
                               "undefined", "undefined"))

DebugReport(received) ==
    ReportOf([i \in 1..DebugRequests |-> ParseFirstText(received[i].response)])

\* upload-file-to-onedrive and create-empty-excel-file: the path (lines 350-353,
\* 394-397).
UploadPath(fileName, folderPath) ==
    IF folderPath = "/" THEN "/me/drive/root:/" \o fileName \o ":/content"
    ELSE "/me/drive/root:" \o folderPath \o "/" \o fileName \o ":/content"

\* upload-file-to-onedrive: its request (lines 355-361).
UploadRequest(params) ==
    [path |-> UploadPath(ArgOf(params, "fileName"), ArgOf(params, "folderPath")),
     options |-> [NoOptions EXCEPT !.given = TRUE, !.method = "PUT", !.hasBody = TRUE,
                      !.headers = << Entry("Content-Type", ArgOf(params, "contentType")) >>,
                      !.body = ArgOf(params, "content")]]

\* create-empty-excel-file: its request (lines 400-406).
CreateRequest(params) ==
    [path |-> UploadPath(ArgOf(params, "fileName"), ArgOf(params, "folderPath")),
     options |-> [NoOptions EXCEPT !.given = TRUE, !.method = "PUT", !.hasBody = TRUE,
                      !.headers = << Entry("Content-Type", DefaultContentType) >>,
                      !.body = ""]]

\* `return response` (lines 363, 408): the response as it is.
ReturnResponse(response) ==
    IF ~response.defined THEN ReturnedUndefined
    ELSE Returned(Envelope(response.content, response.meta, response.isError))

\* The request a hand-written handler makes after `received` replies.
FixedRequest(name, params, received) ==
    CASE name = "debug-excel-access" -> DebugRequest(ArgOf(params, "filePath"), Len(received) + 1)
      [] name = "upload-file-to-onedrive" -> UploadRequest(params)
      [] name = "create-empty-excel-file" -> CreateRequest(params)

\* Whether a hand-written handler returns after `received` replies, the last
\* of which has just arrived.
FixedReturns(name, received) ==
    \/ received[Len(received)].rejected
    \/ name # "debug-excel-access"
    \/ Len(received) = DebugRequests

FixedFinish(name, received) ==
    LET last == received[Len(received)]
    IN  IF last.rejected THEN FixedCatch(last.thrown)
        ELSE IF name = "debug-excel-access" THEN DebugReport(received)
        ELSE ReturnResponse(last.response)

(***************************************************************************)
(* Registration                                                            *)
(***************************************************************************)

\* Lines 66-70: whether the loop registers the descriptor.
Eligible(tool, ro) == ~(ro /\ ToUpperCase(tool.method) # "GET")

Registration(name, kind, readOnlyHint) ==
    [name |-> name, kind |-> kind, readOnlyHint |-> readOnlyHint]

\* The server.tool calls of the loop over api.endpoints, in order.
RECURSIVE CatalogRegistrations(_, _)
CatalogRegistrations(ro, i) ==
    IF i > Len(Endpoints) THEN << >>
    ELSE (IF Eligible(Endpoints[i], ro)
          THEN << Registration(Endpoints[i].alias, "catalog",
                               IF ToUpperCase(Endpoints[i].method) = "GET"
                               THEN "true" ELSE "false") >>
          ELSE << >>)
         \o CatalogRegistrations(ro, i + 1)

\* Lines 267-423: the three hand-written tools, registered whatever readOnly is.
FixedRegistrations ==
    [i \in 1..Len(FixedTools) |-> Registration(FixedTools[i], "fixed", "undefined")]

\* Every server.tool call of registerGraphTools(server, graphClient, ro).
registerGraphTools(ro) == CatalogRegistrations(ro, 1) \o FixedRegistrations

(***************************************************************************)
(* The state: the server's registrations and the invocations in progress   *)
(***************************************************************************)

VARIABLES
    readOnly,     \* the readOnly argument of registerGraphTools
    serving,      \* whether registerGraphTools has run
    registered,   \* the server.tool calls made, in order
    calls         \* the invocations: slot -> the handler's position and locals

vars == << readOnly, serving, registered, calls >>

\* An invocation slot: pc is idle (no invocation), awaiting (the handler is
\* suspended in `await graphClient.graphRequest(path, options)`) or done (the
\* handler has returned `result` to the host).
Idle ==
    [pc |-> "idle", tool |-> "", kind |-> "", params |-> << >>, path |-> "",
     options |-> NoOptions, received |-> << >>, result |-> NoResult]

Awaiting(name, kind, params, request, received) ==
    [pc |-> "awaiting", tool |-> name, kind |-> kind, params |-> params,
     path |-> request.path, options |-> request.options, received |-> received,
     result |-> NoResult]

Done(call, received, result) ==
    [call EXCEPT !.pc = "done", !.received = received, !.result = result]

\* What the other invocations suspended in graphRequest hold.
Inflight(c) == { calls[d] : d \in { e \in DOMAIN calls \ {c} : calls[e].pc = "awaiting" } }

\* The slots in which no invocation is in progress.
Free == { c \in DOMAIN calls : calls[c].pc = "idle" }

RegisteredNames(kind) ==
    { registered[i].name : i \in { j \in 1..Len(registered) : registered[j].kind = kind } }

(***************************************************************************)
(* Inputs                                                                  *)
(***************************************************************************)

\* The most arguments an invocation of a catalog tool passes.
MaxArgs == 2

\* The invocations that may be in progress at once under SpecConcurrent.
MaxCalls == 2

ArgPool ==
    { Arg("id", Str("42")), Arg("id", Str("a/b")), Arg("id", Str(LoneSurrogate)),
      Arg("id", Num("7")),
      Arg("userId", Str("u 1")),
      Arg("path", Str("/a.xlsx")),
      Arg("filter", Str("a eq 1")),
      Arg("Top", Num("5")),
      Arg("tag", Str("x&y")),
      Arg("search", Str("cat")), Arg("search", Str("c" \o LoneSurrogate)),
      Arg("format", Str("pdf")),
      Arg("ConsistencyLevel", Str("eventual")),
      Arg("payload", Str("null")), Arg("payload", Str("false")),
      Arg("payload", Str("\"\"")), Arg("payload", Str("\"x\"")),
      Arg("payload", Str(" [1, 2] ")), Arg("payload", Null),
      Arg("body", Str("{\"a\": 1}")), Arg("body", Str("0")), Arg("body", Str("")),
      Arg("body", Str("{bad")), Arg("body", Obj("{\"a\":1}")),
      Arg("extra", Str("zzz")), Arg("Filter", Str("b")) }

\* The arguments tried on a tool: those it declares, the legacy body and two
\* names it does not declare.
PoolOf(tool) ==
    { a \in ArgPool :
        \/ FindParam(tool, a.name) > 0
        \/ a.name \in {"body", "extra", "Filter"} }

\* Object.entries(params): up to MaxArgs entries with distinct names.
ParamsOf(tool) ==
    { p \in UNION { [1..n -> PoolOf(tool)] : n \in 0..MaxArgs } :
        \A i, j \in 1..Len(p) : i # j => p[i].name # p[j].name }

\* The arguments of the hand-written tools, with the schema's defaults filled in.
FixedParamsOf(name) ==
    CASE name = "debug-excel-access" -> { << Arg("filePath", Str("/test.xlsx")) >> }
      [] name = "upload-file-to-onedrive" ->
           { << Arg("fileName", Str("t.xlsx")), Arg("content", Str(content)),
                Arg("folderPath", Str(folderPath)),
                Arg("contentType", Str(DefaultContentType)) >> :
             content \in {"UEsDB", ""}, folderPath \in {"/", "/docs"} }
      [] name = "create-empty-excel-file" ->
           { << Arg("fileName", Str("t.xlsx")), Arg("folderPath", Str(folderPath)) >> :
             folderPath \in {"/", "/docs"} }

OkResponse == Response(<< TextItem("{\"value\":[{\"id\":1}]}") >>, "undefined", "undefined")
EmptyResponse == Response(<< >>, "undefined", "undefined")
TextResponse == Response(<< TextItem("plain text") >>, "undefined", "false")
ErrorResponse ==
    Response(<< TextItem("{\"error\":\"403\"}"), TextItem("more") >>, "m", "true")

\* What graphRequest may resolve to.
Responses == { OkResponse, EmptyResponse, TextResponse, ErrorResponse, UndefinedResponse }

\* What graphRequest may reject with: Errors and a thrown string.
Thrown == { ErrorOf("401 Unauthorized"), ErrorOf("bad \"token\"\n"), Str("boom") }

(***************************************************************************)
(* Actions                                                                 *)
(***************************************************************************)

Init ==
    /\ readOnly \in BOOLEAN
    /\ serving = FALSE
    /\ registered = << >>
    /\ calls = [c \in 1..1 |-> Idle]

\* registerGraphTools(server, graphClient, readOnly)
Register ==
    /\ ~serving
    /\ serving' = TRUE
    /\ registered' = registerGraphTools(readOnly)
    /\ UNCHANGED << readOnly, calls >>

\* Where a catalog handler stands once it has made its request or thrown.
StartCatalog(tool, params, request) ==
    IF request.threw
    THEN Done(Awaiting(tool.alias, "catalog", params, request, << >>), << >>,
              CatalogCatch(tool, ErrorOf(request.message)))
    ELSE Awaiting(tool.alias, "catalog", params, request, << >>)

\* The host calls a catalog tool: the handler runs to its await, or to the
\* return of its catch if it throws before.
InvokeCatalog(c, alias, params) ==
    /\ serving
    /\ calls[c].pc = "idle"
    /\ alias \in RegisteredNames("catalog")
    /\ calls' = [calls EXCEPT ![c] =
                    StartCatalog(ToolOf(alias), params,
                                 CatalogRequest(ToolOf(alias), params, Inflight(c)))]
    /\ UNCHANGED << readOnly, serving, registered >>

\* The host calls a hand-written tool: the handler runs to its first await.
InvokeFixed(c, name, params) ==
    /\ serving
    /\ calls[c].pc = "idle"
    /\ name \in RegisteredNames("fixed")
    /\ calls' = [calls EXCEPT ![c] =
                    Awaiting(name, "fixed", params, FixedRequest(name, params, << >>), << >>)]
    /\ UNCHANGED << readOnly, serving, registered >>

\* The handler resumes with what graphRequest did and runs to its next await
\* or to its return.
Resume(call, reply) ==
    LET received == Append(call.received, reply)
    IN  IF call.kind = "catalog"
        THEN Done(call, received, CatalogFinish(ToolOf(call.tool), reply))
        ELSE IF FixedReturns(call.tool, received)
        THEN Done(call, received, FixedFinish(call.tool, received))
        ELSE Awaiting(call.tool, "fixed", call.params,
                      FixedRequest(call.tool, call.params, received), received)

GraphRequestResolves(c, response) ==
    /\ calls[c].pc = "awaiting"
    /\ calls' = [calls EXCEPT ![c] = Resume(@, Resolved(response))]
    /\ UNCHANGED << readOnly, serving, registered >>

GraphRequestRejects(c, thrown) ==
    /\ calls[c].pc = "awaiting"
    /\ calls' = [calls EXCEPT ![c] = Resume(@, Rejected(thrown))]
    /\ UNCHANGED << readOnly, serving, registered >>

\* The host takes the result of a finished invocation; the slot is free again.
HostReceives(c) ==
    /\ calls[c].pc = "done"
    /\ calls' = [calls EXCEPT ![c] = Idle]
    /\ UNCHANGED << readOnly, serving, registered >>

Next ==
    \/ Register
    \/ \E c \in Free, alias \in RegisteredNames("catalog") :
           \E params \in ParamsOf(ToolOf(alias)) : InvokeCatalog(c, alias, params)
    \/ \E c \in Free, name \in RegisteredNames("fixed") :
           \E params \in FixedParamsOf(name) : InvokeFixed(c, name, params)
    \/ \E c \in DOMAIN calls, response \in Responses : GraphRequestResolves(c, response)
    \/ \E c \in DOMAIN calls, thrown \in Thrown : GraphRequestRejects(c, thrown)
    \/ \E c \in DOMAIN calls : HostReceives(c)

Spec == Init /\ [][Next]_vars

(***************************************************************************)
(* Interleaved invocations: MaxCalls handlers may be suspended in          *)
(* graphRequest at once; each runs from one await to the next without      *)
(* interruption, as the event loop runs it.                                *)
(***************************************************************************)

\* The invocations the host makes of the catalog tools: with a header, with a
\* query, with a body, and one that throws while binding.
ConcurrentInvocations ==
    { [alias |-> "list-user-messages",
       params |-> << Arg("userId", Str("u 1")), Arg("ConsistencyLevel", Str("eventual")) >>],
      [alias |-> "get-item",
       params |-> << Arg("id", Str("42")), Arg("filter", Str("a eq 1")) >>],
      [alias |-> "create-item", params |-> << Arg("payload", Str("\"x\"")) >>],
      [alias |-> "get-item", params |-> << Arg("id", Str(LoneSurrogate)) >>] }

ConcurrentFixed == "create-empty-excel-file"

InitConcurrent ==
    /\ readOnly = FALSE
    /\ serving = FALSE
    /\ registered = << >>
    /\ calls = [c \in 1..MaxCalls |-> Idle]

NextConcurrent ==
    \/ Register
    \/ \E c \in Free, inv \in ConcurrentInvocations :
           InvokeCatalog(c, inv.alias, inv.params)
    \/ \E c \in Free :
           InvokeFixed(c, ConcurrentFixed,
                       << Arg("fileName", Str("t.xlsx")), Arg("folderPath", Str("/")) >>)
    \/ \E c \in DOMAIN calls : GraphRequestResolves(c, OkResponse)
    \/ \E c \in DOMAIN calls : GraphRequestRejects(c, ErrorOf("401 Unauthorized"))
    \/ \E c \in DOMAIN calls : HostReceives(c)

SpecConcurrent == InitConcurrent /\ [][NextConcurrent]_vars
(***************************************************************************)
(* Properties                                                              *)
(***************************************************************************)

\* The invocations of catalog tools in progress or finished.
CatalogCalls == { c \in DOMAIN calls : calls[c].pc # "idle" /\ calls[c].kind = "catalog" }

\* The catalog handlers that have made their request and await its reply.
Dispatched == { c \in CatalogCalls : calls[c].pc = "awaiting" }

\* The type the descriptor declares for an argument name, "" if it declares none.
DeclaredType(tool, name) ==
    IF FindParam(tool, name) > 0 THEN tool.parameters[FindParam(tool, name)].type ELSE ""

\* Whether a step of the handler has thrown: the binding or the synthesis (it
\* finished without a request), graphRequest (it rejected), or the
\* normalization (of a response that is undefined).
StepThrew(call) ==
    /\ call.pc = "done"
    /\ call.kind = "catalog"
    /\ \/ call.received = << >>
       \/ call.received[1].rejected
       \/ ~call.received[1].response.defined

\* The `error` member of the object a text decodes to as JSON, if it is an
\* object whose only member is a string named error.
DecodedError(text) ==
    LET r == JSONParse(text)
    IN  IF r.ok /\ r.val.t = "obj" /\ StartsAt(r.val.v, "{\"error\":\"", 1)
        THEN ScanString(r.val.v, 11)
        ELSE ParseFail

\* C1: whenever a step of a catalog handler has thrown (binding, request
\* synthesis, graphRequest or response normalization), the handler has thrown
\* nothing to the host: it has returned an envelope whose isError is true and
\* whose content is exactly one text item, the text of which decodes as JSON
\* to an object with an error member that contains tool.alias.
C1_ThrownBecomesErrorEnvelope ==
    \A c \in DOMAIN calls :
        StepThrew(calls[c]) =>
            LET res == calls[c].result
                content == res.envelope.content
                decoded == DecodedError(content[1].text)
            IN  /\ ~res.threw
                /\ res.defined
                /\ res.envelope.isError = "true"
                /\ Len(content) = 1
                /\ content[1].type = "text"
                /\ decoded.ok
                /\ Includes(decoded.v, calls[c].tool)

\* A catalog handler has finished after graphRequest rejected with an Error
\* whose message holds quotes and a line break.
C1_Witness ==
    \E c \in DOMAIN calls :
        /\ StepThrew(calls[c])
        /\ calls[c].received # << >>
        /\ calls[c].received[1].rejected
        /\ calls[c].received[1].thrown = ErrorOf("bad \"token\"\n")

\* The names registered on the server.
RegisteredSet == { registered[i].name : i \in 1..Len(registered) }

\* The aliases of the descriptors whose method is GET.
GetAliases ==
    { Endpoints[i].alias : i \in { j \in 1..Len(Endpoints) : ToUpperCase(Endpoints[j].method) = "GET" } }

\* C2: after registerGraphTools has run with readOnly true, the set of names
\* registered on the server is exactly the set of the GET descriptors.
C2_ReadOnlyRegistersExactlyGet ==
    (serving /\ readOnly) => RegisteredSet = GetAliases

\* C3: in every request a catalog handler has made, each supplied argument
\* that is bound to a Path parameter has its escaped value in the path, and
\* the path holds neither `{name}` nor `:name` for that parameter any more.
C3_NoPlaceholderLeft ==
    \A c \in Dispatched :
        \A i \in 1..Len(calls[c].params) :
            LET arg == calls[c].params[i]
            IN  DeclaredType(ToolOf(calls[c].tool), arg.name) = "Path" =>
                    /\ Includes(calls[c].path, EncodeURIComponent(StringOf(arg.value)))
                    /\ ~Includes(calls[c].path, "{" \o arg.name \o "}")
                    /\ ~Includes(calls[c].path, ":" \o arg.name)

\* The query string of a path: what follows its first "?".
QueryStringOf(path) ==
    IF Includes(path, "?") THEN From(path, IndexOf(path, "?") + 1) ELSE ""

\* Whether key=value is one of the pairs of the query string q.
HasPair(q, key, value) == Includes("&" \o q \o "&", "&" \o key \o "=" \o value \o "&")

\* The names that take the sigil, compared without regard to case.
SigilNames ==
    {"filter", "select", "expand", "orderby", "skip", "top", "count", "search", "format"}

\* The arguments of a call that are bound to a Query parameter.
QueryArgs(call) ==
    { i \in 1..Len(call.params) :
        DeclaredType(ToolOf(call.tool), call.params[i].name) = "Query" }

\* C4 as stated: in every request a catalog handler has made, the key of an
\* argument bound to a Query parameter is the name prefixed with `$` if the
\* name is one of the nine, and the name unchanged otherwise; filter "a eq 1"
\* gives the query string $filter=a%20eq%201.
C4_QueryKeysCarrySigil ==
    \A c \in Dispatched :
        /\ \A i \in QueryArgs(calls[c]) :
               LET arg == calls[c].params[i]
               IN  HasPair(QueryStringOf(calls[c].path),
                           IF ToLowerCase(arg.name) \in SigilNames
                           THEN "$" \o arg.name ELSE arg.name,
                           EncodeURIComponent(StringOf(arg.value)))
        /\ (calls[c].tool = "get-item"
                /\ calls[c].params = << Arg("filter", Str("a eq 1")) >>)
               => QueryStringOf(calls[c].path) = "$filter=a%20eq%201"

\* C4 as the code has it: in every request a catalog handler has made, the
\* key of an argument bound to a Query parameter is, if the name is one of the
\* nine, the escaped sigil %24 followed by the name in lower case, and the
\* escaped name otherwise; filter "a eq 1" gives %24filter=a%20eq%201.
C4_QueryKeysCarryEscapedSigil ==
    \A c \in Dispatched :
        /\ \A i \in QueryArgs(calls[c]) :
               LET arg == calls[c].params[i]
               IN  HasPair(QueryStringOf(calls[c].path),
                           IF ToLowerCase(arg.name) \in SigilNames
                           THEN "%24" \o ToLowerCase(arg.name)
                           ELSE EncodeURIComponent(arg.name),
                           EncodeURIComponent(StringOf(arg.value)))
        /\ (calls[c].tool = "get-item"
                /\ calls[c].params = << Arg("filter", Str("a eq 1")) >>)
               => QueryStringOf(calls[c].path) = "%24filter=a%20eq%201"

\* A request has been made with a filter and with a Top argument, whose name
\* is one of the nine only without regard to case.
C4_Witness ==
    \E c \in Dispatched :
        /\ calls[c].tool = "get-item"
        /\ calls[c].params = << Arg("filter", Str("a eq 1")), Arg("Top", Num("5")) >>

\* The arguments of a call that set the body: those bound to a Body parameter
\* and the legacy argument named body.
BodyArgs(call) ==
    { i \in 1..Len(call.params) :
        \/ DeclaredType(ToolOf(call.tool), call.params[i].name) = "Body"
        \/ /\ FindParam(ToolOf(call.tool), call.params[i].name) = 0
           /\ call.params[i].name = "body" }

\* The invocations of non-GET catalog tools whose only argument sets the body
\* and is a string.
StringBodyCalls ==
    { c \in CatalogCalls :
        /\ ToUpperCase(ToolOf(calls[c].tool).method) # "GET"
        /\ Len(calls[c].params) = 1
        /\ BodyArgs(calls[c]) = {1}
        /\ calls[c].params[1].value.t = "str" }

\* A value as the transport carries it: a string as it is, any other value as
\* its JSON text.
Carried(val) == IF val.t = "str" THEN val.v ELSE JSONStringify(val)

\* C5: a non-GET catalog handler given a body string that is valid JSON makes
\* its request with a body, which is the parsed value (for every valid JSON
\* string, those that parse to null, false, 0 or "" included).
C5_ValidJsonBodyIsTransmitted ==
    \A c \in StringBodyCalls :
        LET r == JSONParse(calls[c].params[1].value.v)
        IN  r.ok => /\ calls[c].options.given
                    /\ calls[c].options.hasBody
                    /\ calls[c].options.body = Carried(r.val)

\* C6: a non-GET catalog handler given a body string that is not valid JSON
\* throws nothing and makes its request with a body, which is the string
\* unchanged (for every such string, the empty string included).
C6_InvalidJsonBodyIsTransmitted ==
    \A c \in StringBodyCalls :
        LET text == calls[c].params[1].value.v
        IN  ~JSONParse(text).ok => /\ calls[c].options.given
                                   /\ calls[c].options.hasBody
                                   /\ calls[c].options.body = text

\* C7: what a handler hands to the host is an envelope, whose content is not
\* empty if it is a success and is a single text item, with isError true, if
\* it is a failure.
C7_EnvelopeShape ==
    \A c \in DOMAIN calls :
        calls[c].pc = "done" =>
            LET res == calls[c].result
                content == res.envelope.content
            IN  /\ ~res.threw
                /\ res.defined
                /\ res.envelope.isError # "true" => Len(content) > 0
                /\ res.envelope.isError = "true" =>
                       Len(content) = 1 /\ content[1].type = "text"

\* Whether the descriptor neither declares the argument nor takes it as the
\* legacy body.
Undeclared(tool, arg) == FindParam(tool, arg.name) = 0 /\ arg.name # "body"

\* The arguments without those that are undeclared.
RECURSIVE Declared(_, _)
Declared(tool, params) ==
    IF params = << >> THEN << >>
    ELSE (IF Undeclared(tool, Head(params)) THEN << >> ELSE << Head(params) >>)
         \o Declared(tool, Tail(params))

\* The catalog handlers that were given an undeclared argument and have made
\* their request, or have thrown before making one.
GivenUndeclared ==
    { c \in CatalogCalls :
        /\ calls[c].received = << >>
        /\ \E i \in 1..Len(calls[c].params) :
               Undeclared(ToolOf(calls[c].tool), calls[c].params[i]) }

\* C8: what a catalog handler given an undeclared argument does (the path with
\* its query string and the options with the headers, the body and the hints
\* of the request it makes, or the error it throws before) is what it does
\* with the same arguments without the undeclared ones.
C8_UndeclaredArgumentsHaveNoEffect ==
    \A c \in GivenUndeclared :
        LET tool == ToolOf(calls[c].tool)
            without == CatalogRequest(tool, Declared(tool, calls[c].params), {})
        IN  /\ calls[c].path = without.path
            /\ calls[c].options = without.options
            /\ calls[c].pc = "done" <=> without.threw

\* A request has been made with a declared argument and with an argument whose
\* name differs from a declared one by case only.
C8_Witness ==
    \E c \in Dispatched :
        /\ calls[c].tool = "get-item"
        /\ calls[c].params = << Arg("Filter", Str("b")), Arg("id", Str("a/b")) >>

\* The replies a handler had received when it made its last request.
RepliesBefore(call) ==
    IF call.pc = "done" /\ call.received # << >>
    THEN SubSeq(call.received, 1, Len(call.received) - 1)
    ELSE call.received

\* The request an invocation makes, and the envelope it returns, if it runs
\* alone with the same arguments and the same replies.
AloneRequest(call) ==
    IF call.kind = "catalog" THEN CatalogRequest(ToolOf(call.tool), call.params, {})
    ELSE FixedRequest(call.tool, call.params, RepliesBefore(call))

AloneResult(call) ==
    IF call.kind = "fixed" THEN FixedFinish(call.tool, call.received)
    ELSE IF call.received = << >>
    THEN CatalogCatch(ToolOf(call.tool), ErrorOf(AloneRequest(call).message))
    ELSE CatalogFinish(ToolOf(call.tool), call.received[1])

\* C9: however the invocations interleave at their awaits, each makes the
\* request and returns the envelope it makes and returns if it runs alone with
\* the same arguments and the same replies.
C9_InterleavedAsAlone ==
    \A c \in DOMAIN calls :
        calls[c].pc # "idle" =>
            /\ calls[c].path = AloneRequest(calls[c]).path
            /\ calls[c].options = AloneRequest(calls[c]).options
            /\ calls[c].pc = "done" => calls[c].result = AloneResult(calls[c])

\* An invocation has returned its envelope while another one, which passed
\* headers, is still suspended in graphRequest.
C9_Witness ==
    \E c, d \in DOMAIN calls :
        /\ c # d
        /\ calls[c].pc = "done"
        /\ calls[c].received # << >>
        /\ calls[d].pc = "awaiting"
        /\ calls[d].options.headers # << >>
        /\ calls[c].tool # calls[d].tool

\* C10: after registerGraphTools has run with readOnly true, no handler is
\* suspended in a graphRequest whose options name a method other than GET.
C10_ReadOnlyDispatchesOnlyGet ==
    readOnly =>
        \A c \in DOMAIN calls :
            (calls[c].pc = "awaiting" /\ calls[c].options.given) =>
                calls[c].options.method = "GET"
====
